---- MODULE Spec2Model ----
(***************************************************************************)
(* A model of css-beziers: the CubicBezier curve of src/src/css-beziers.js *)
(* (construction, point evaluation, inversion by Newton's method with a    *)
(* bisection fallback, De Casteljau subdivision, presets, clone) and the   *)
(* legacy variant of the constructor and of point evaluation               *)
(* (src/unnamed/part_000 and the tail of css-beziers.js).                  *)
(*                                                                         *)
(* JavaScript numbers are IEEE-754 binary floating point numbers, rounded  *)
(* to nearest (ties to even) after every operation.  The model keeps that  *)
(* arithmetic and shortens the significand from 53 bits to P bits; the     *)
(* exponent is an unbounded integer, so nothing overflows or underflows.   *)
(***************************************************************************)
EXTENDS Integers, Sequences, FiniteSets, TLC

(* ------------------------------------------------------------------ *)
(* Bounds                                                             *)
(* ------------------------------------------------------------------ *)

\* Bits of the significand of a number (53 in binary64).
P == 6

(* ------------------------------------------------------------------ *)
(* Numbers: m * 2^e with m odd (or m = 0, e = 0), |m| < 2^P; NaN; and   *)
(* +Infinity / -Infinity (k = "inf", m = 1 / -1).                      *)
(* ------------------------------------------------------------------ *)

Num(m, e) == [k |-> "num", m |-> m, e |-> e]
NaN == [k |-> "nan", m |-> 0, e |-> 0]
Inf(s) == [k |-> "inf", m |-> s, e |-> 0]
Zero == Num(0, 0)

IsNum(x) == x.k = "num"

Numbers == [k : {"num", "nan", "inf"}, m : Int, e : Int]

Pow2Tab == [i \in 0..30 |-> 2^i]
Pow2(i) == Pow2Tab[i]

Abs(n) == IF n < 0 THEN -n ELSE n
Sgn(n) == IF n < 0 THEN -1 ELSE IF n > 0 THEN 1 ELSE 0

\* Number of binary digits of n >= 0; number of trailing zero bits of n > 0.
BitLenTab == [n \in 0..1023 |-> CHOOSE i \in 0..10 : n < 2^i /\ (i = 0 \/ n >= 2^(i - 1))]
TrailingZerosTab == [n \in 1..1023 |-> CHOOSE i \in 0..9 : n % 2^i = 0 /\ n % 2^(i + 1) # 0]

RECURSIVE BitLen(_)
BitLen(n) == IF n < 1024 THEN BitLenTab[n] ELSE 10 + BitLen(n \div 1024)

RECURSIVE TrailingZeros(_)
TrailingZeros(n) ==
    IF n % 1024 # 0 THEN TrailingZerosTab[n % 1024] ELSE 10 + TrailingZeros(n \div 1024)

\* The canonical form of m * 2^e.
Norm(m, e) ==
    IF m = 0 THEN Zero
    ELSE LET z == TrailingZeros(Abs(m))
         IN  Num(Sgn(m) * (Abs(m) \div Pow2(z)), e + z)

\* m * 2^e rounded to P significant bits, to nearest, ties to even.
RoundFn == [m \in Int, e \in Int |->
    LET n == Abs(m)
        sh == BitLen(n) - P
    IN  IF sh <= 0 THEN Norm(m, e)
        ELSE LET q == n \div Pow2(sh)
                 r == n % Pow2(sh)
                 h == Pow2(sh - 1)
                 up == r > h \/ (r = h /\ q % 2 = 1)
             IN  Norm(Sgn(m) * (IF up THEN q + 1 ELSE q), e + sh)]
Round(m, e) == RoundFn[m, e]

\* Exponent of the bit above the leading bit: |x| < 2^Top(x).
Top(x) == x.e + BitLen(Abs(x.m))

FNeg(x) == IF IsNum(x) THEN Num(-x.m, x.e) ELSE IF x.k = "inf" THEN Inf(-x.m) ELSE NaN

\* x + y
FAddFn == [x \in Numbers, y \in Numbers |->
    IF x.k = "nan" \/ y.k = "nan" THEN NaN
    ELSE IF x.k = "inf" /\ y.k = "inf" THEN (IF x.m = y.m THEN x ELSE NaN)
    ELSE IF x.k = "inf" THEN x
    ELSE IF y.k = "inf" THEN y
    ELSE IF x.m = 0 THEN y
    ELSE IF y.m = 0 THEN x
    ELSE IF Top(y) <= Top(x) - P - 2 THEN x
    ELSE IF Top(x) <= Top(y) - P - 2 THEN y
    ELSE LET e0 == IF x.e < y.e THEN x.e ELSE y.e
         IN  Round(x.m * Pow2(x.e - e0) + y.m * Pow2(y.e - e0), e0)]
FAdd(x, y) == FAddFn[x, y]

\* x - y
FSub(x, y) == FAdd(x, FNeg(y))

\* x * y
FMulFn == [x \in Numbers, y \in Numbers |->
    IF x.k = "nan" \/ y.k = "nan" THEN NaN
    ELSE IF x.k = "inf" \/ y.k = "inf"
         THEN (IF x.m = 0 \/ y.m = 0 THEN NaN ELSE Inf(Sgn(x.m) * Sgn(y.m)))
    ELSE Round(x.m * y.m, x.e + y.e)]
FMul(x, y) == FMulFn[x, y]

\* x / y
FDivFn == [x \in Numbers, y \in Numbers |->
    IF x.k = "nan" \/ y.k = "nan" THEN NaN
    ELSE IF x.k = "inf" THEN (IF y.k = "inf" THEN NaN
                              ELSE Inf(x.m * (IF y.m < 0 THEN -1 ELSE 1)))
    ELSE IF y.k = "inf" THEN Zero
    ELSE IF y.m = 0 THEN (IF x.m = 0 THEN NaN ELSE Inf(Sgn(x.m)))
    ELSE IF x.m = 0 THEN Zero
    ELSE LET s == 2 * P + 2
             n == Abs(x.m) * Pow2(s)
             q == n \div Abs(y.m)
             sticky == IF n % Abs(y.m) = 0 THEN 0 ELSE 1
         IN  Round(Sgn(x.m) * Sgn(y.m) * (2 * q + sticky), x.e - y.e - s - 1)]
FDiv(x, y) == FDivFn[x, y]

\* x < y
FLtFn == [x \in Numbers, y \in Numbers |->
    IF x.k = "nan" \/ y.k = "nan" THEN FALSE
    ELSE IF x.k = "inf" THEN x.m < 0 /\ ~(y.k = "inf" /\ y.m < 0)
    ELSE IF y.k = "inf" THEN y.m > 0
    ELSE FSub(x, y).m < 0]
FLt(x, y) == FLtFn[x, y]

\* x == y, x === y on numbers
FEq(x, y) == x.k # "nan" /\ y.k # "nan" /\ x = y

FLe(x, y) == FLt(x, y) \/ FEq(x, y)
FGt(x, y) == FLt(y, x)
FGe(x, y) == FLe(y, x)

\* Math.abs
MathAbs(x) == IF IsNum(x) THEN Num(Abs(x.m), x.e) ELSE IF x.k = "inf" THEN Inf(1) ELSE NaN

\* isFinite
IsFinite(x) == IsNum(x)

\* An integer literal, and a decimal literal n/d, as the nearest number.
FromInt(n) == Round(n, 0)
Lit(n, d) == FDiv(FromInt(n), FromInt(d))

One == FromInt(1)
Two == FromInt(2)
Three == FromInt(3)
Half == Lit(1, 2)


(* ------------------------------------------------------------------ *)
(* More bounds: the inputs the calls are made with                    *)
(* ------------------------------------------------------------------ *)

\* Control coordinates passed to the constructors: k / GridDen.
GridDen == 2

\* Parameters t and target coordinates c passed to the methods: k / TDen.
TDen == 4

\* The coarse tolerance passed to inversion is 2^-EpsBits.
EpsBits == 3

\* for (...; i < 8; i++)
NewtonIterations == 8

CoordInputs == {Lit(k, GridDen) : k \in -1..(GridDen + 1)} \cup {NaN}
TInputs == {Lit(k, TDen) : k \in -1..(TDen + 1)} \cup {NaN}
TargetInputs == {Lit(k, TDen) : k \in -1..(TDen + 1)}
\* A coarse tolerance, one below the resolution of the numbers near 1,
\* and three that are not tolerances.
EpsilonInputs == {Num(1, -EpsBits), Num(1, -(P + 2)), Zero, NaN, Inf(1)}

(* ------------------------------------------------------------------ *)
(* css-beziers.js: the curve                                          *)
(* ------------------------------------------------------------------ *)

\* The range check written as !(p < 0 || p > 1), which lets NaN through.
InRangeNotOutside(p) == ~(FLt(p, Zero) \/ FGt(p, One))

\* p >= 0 && p <= 1
InRange(p) == FGe(p, Zero) /\ FLe(p, One)

\* The object the constructor initialises.
CurveObject(p1x, p1y, p2x, p2y) ==
    [variant |-> "css", p1x |-> p1x, p1y |-> p1y, p2x |-> p2x, p2y |-> p2y]

\* What a constructor call leaves: the object, or the RangeError thrown
\* for the parameter named.
Constructed(param, obj) == [thrown |-> param # "", param |-> param, obj |-> obj]

\* new CubicBezier(p1x, p1y, p2x, p2y)
CubicBezier(p1x, p1y, p2x, p2y) ==
    Constructed(IF ~InRange(p1x) THEN "p1x"
                ELSE IF ~InRange(p1y) THEN "p1y"
                ELSE IF ~InRange(p2x) THEN "p2x"
                ELSE IF ~InRange(p2y) THEN "p2y"
                ELSE "",
                CurveObject(p1x, p1y, p2x, p2y))

\* var c = 3 * p1, b = 3 * (p2 - p1) - c, a = 1 - c - b
CoefficientC(p1) == FMul(Three, p1)
CoefficientB(p1, p2, c) == FSub(FMul(Three, FSub(p2, p1)), c)
CoefficientA(c, b) == FSub(FSub(One, c), b)

\* The polynomial without its last factor: (a * t + b) * t + c.
PolynomialShort(t, a, b, c) == FAdd(FMul(FAdd(FMul(a, t), b), t), c)

\* ((a * t + b) * t + c) * t
Polynomial(t, a, b, c) == FMul(FAdd(FMul(FAdd(FMul(a, t), b), t), c), t)

\* (3 * a * t + 2 * b) * t + c
Derivative(t, a, b, c) == FAdd(FMul(FAdd(FMul(FMul(Three, a), t), FMul(Two, b)), t), c)

CoordinateFromB(t, b, c) == Polynomial(t, CoefficientA(c, b), b, c)
CoordinateFromC(t, p1, p2, c) == CoordinateFromB(t, CoefficientB(p1, p2, c), c)

\* _getCoordinateForT
GetCoordinateForT(t, p1, p2) == CoordinateFromC(t, p1, p2, CoefficientC(p1))

DerivateFromB(t, b, c) == Derivative(t, CoefficientA(c, b), b, c)
DerivateFromC(t, p1, p2, c) == DerivateFromB(t, CoefficientB(p1, p2, c), c)

\* _getCoordinateDerivateForT
GetCoordinateDerivateForT(t, p1, p2) == DerivateFromC(t, p1, p2, CoefficientC(p1))

\* What a point evaluation leaves: the point, or the RangeError.
PointThrown == [thrown |-> TRUE, pt |-> [x |-> NaN, y |-> NaN]]
PointReturned(x, y) == [thrown |-> FALSE, pt |-> [x |-> x, y |-> y]]

\* getPointForT
GetPointForT(this, t) ==
    IF FEq(t, Zero) \/ FEq(t, One) THEN PointReturned(t, t)
    ELSE IF ~FGt(t, Zero) \/ ~FLt(t, One) THEN PointThrown
    ELSE PointReturned(GetCoordinateForT(t, this.p1x, this.p2x),
                       GetCoordinateForT(t, this.p1y, this.p2y))

\* _getAuxPoints, one axis.  The second series of auxiliary points and
\* the division point, from the first series.
AuxDivisionPoint(t, i0, i1, i2, j0, j1) ==
    <<i0, i1, i2, j0, j1, FAdd(j0, FMul(t, FSub(j1, j0)))>>

AuxSecondSeries(t, i0, i1, i2) ==
    AuxDivisionPoint(t, i0, i1, i2,
                     FAdd(i0, FMul(t, FSub(i1, i0))),
                     FAdd(i1, FMul(t, FSub(i2, i1))))

AuxFirstSeries(t, p1, p2) ==
    AuxSecondSeries(t, FMul(t, p1),
                    FAdd(p1, FMul(t, FSub(p2, p1))),
                    FAdd(p2, FMul(t, FSub(One, p2))))

\* [i0x, i0y, i1x, i1y, i2x, i2y, j0x, j0y, j1x, j1y, kx, ky], from 1
AuxArray(X, Y) ==
    <<X[1], Y[1], X[2], Y[2], X[3], Y[3], X[4], Y[4], X[5], Y[5], X[6], Y[6]>>

\* _getAuxPoints reading this._p2x where the y series needs this._p2y, as
\* the legacy variant does for i1.
GetAuxPointsMixed(this, t) ==
    AuxArray(AuxFirstSeries(t, this.p1x, this.p2x),
             AuxFirstSeries(t, this.p1y, this.p2x))

\* _getAuxPoints for 0 < t < 1 (divideAtT calls it with no other t that
\* it would not throw for)
GetAuxPoints(this, t) ==
    AuxArray(AuxFirstSeries(t, this.p1x, this.p2x),
             AuxFirstSeries(t, this.p1y, this.p2y))

\* CubicBezier.linear(), the definition in force (the later one), and
\* the other presets.
Linear == CubicBezier(Zero, Zero, One, One)
Ease == CubicBezier(Lit(25, 100), Lit(1, 10), Lit(25, 100), One)
EaseIn == CubicBezier(Lit(42, 100), Zero, One, One)
EaseOut == CubicBezier(Zero, Zero, Lit(58, 100), One)
EaseInOut == CubicBezier(Lit(42, 100), Zero, Lit(58, 100), One)

Presets == [linear |-> Linear, ease |-> Ease, easeIn |-> EaseIn,
            easeOut |-> EaseOut, easeInOut |-> EaseInOut]

\* clone
Clone(this) == CubicBezier(this.p1x, this.p1y, this.p2x, this.p2y)

\* What divideAtT leaves behind: whether it threw, the return statement
\* it left by, the objects it allocated (new) and, for each element of
\* the returned array, which of them it is (arr; 0 is the receiver).
DivideThrow == [thrown |-> TRUE, exit |-> "throw", new |-> <<>>, arr |-> <<>>]

\* return [new CubicBezier(left...), new CubicBezier(right...)]
DivideReturn(left, right) ==
    IF left.thrown \/ right.thrown THEN DivideThrow
    ELSE [thrown |-> FALSE, exit |-> "general",
          new |-> <<left.obj, right.obj>>, arr |-> <<1, 2>>]

\* The normalisation of the derived points: kx = points[10] and
\* ky = points[11] in the source, whose array starts at 0.
DivideAtPoints(points) ==
    DivideReturn(
        CubicBezier(FDiv(points[1], points[11]), FDiv(points[2], points[12]),
                    FDiv(points[7], points[11]), FDiv(points[8], points[12])),
        CubicBezier(FDiv(FSub(points[9], points[11]), FSub(One, points[11])),
                    FDiv(FSub(points[10], points[12]), FSub(One, points[12])),
                    FDiv(FSub(points[5], points[11]), FSub(One, points[11])),
                    FDiv(FSub(points[6], points[12]), FSub(One, points[12]))))

\* The boundary case with curves[1-t] = this in place of this.clone().
DivideAtBoundarySharing(this, t) ==
    [thrown |-> FALSE, exit |-> "boundary",
     new |-> <<Linear.obj>>,
     arr |-> IF FEq(t, Zero) THEN <<1, 0>> ELSE <<0, 1>>]

\* curves[t] = CubicBezier.linear(); curves[1-t] = this.clone()
DivideAtBoundary(this, t) ==
    [thrown |-> FALSE, exit |-> "boundary",
     new |-> <<Linear.obj, Clone(this).obj>>,
     arr |-> IF FEq(t, Zero) THEN <<1, 2>> ELSE <<2, 1>>]

\* divideAtT
DivideAtT(this, t) ==
    IF FLt(t, Zero) \/ FGt(t, One) THEN DivideThrow
    ELSE IF FEq(t, Zero) \/ FEq(t, One) THEN DivideAtBoundary(this, t)
    ELSE IF ~FGt(t, Zero) \/ ~FLt(t, One) THEN DivideThrow  \* in _getAuxPoints
    ELSE DivideAtPoints(GetAuxPoints(this, t))

(* ------------------------------------------------------------------ *)
(* The legacy variant (part_000, and css-beziers.js from line 286)    *)
(* ------------------------------------------------------------------ *)

\* !(p >= 0) || !(p <= 1)
LegacyOutOfRange(p) == ~FGe(p, Zero) \/ ~FLe(p, One)

\* this._p1, this._p2 and the coefficients this._c, this._b, this._a
LegacyObjectFromB(p1x, p1y, p2x, p2y, cx, cy, bx, by) ==
    [variant |-> "legacy",
     p1 |-> [x |-> p1x, y |-> p1y], p2 |-> [x |-> p2x, y |-> p2y],
     c |-> [x |-> cx, y |-> cy], b |-> [x |-> bx, y |-> by],
     a |-> [x |-> FSub(FSub(One, cx), bx), y |-> FSub(FSub(One, cy), by)]]

LegacyObjectFromC(p1x, p1y, p2x, p2y, cx, cy) ==
    LegacyObjectFromB(p1x, p1y, p2x, p2y, cx, cy,
                      FSub(FMul(Three, FSub(p2x, p1x)), cx),
                      FSub(FMul(Three, FSub(p2y, p1y)), cy))

LegacyObject(p1x, p1y, p2x, p2y) ==
    LegacyObjectFromC(p1x, p1y, p2x, p2y, FMul(Three, p1x), FMul(Three, p1y))

\* new CubicBezier(p1x, p1y, p2x, p2y) of the legacy variant
LegacyCubicBezier(p1x, p1y, p2x, p2y) ==
    Constructed(IF LegacyOutOfRange(p1x) THEN "p1x"
                ELSE IF LegacyOutOfRange(p1y) THEN "p1y"
                ELSE IF LegacyOutOfRange(p2x) THEN "p2x"
                ELSE IF LegacyOutOfRange(p2y) THEN "p2y"
                ELSE "",
                LegacyObject(p1x, p1y, p2x, p2y))

\* t*(3*a*t + 2*b) + c
LegacyPolynomial(t, a, b, c) ==
    FAdd(FMul(t, FAdd(FMul(FMul(Three, a), t), FMul(Two, b))), c)

\* part_000: getPointForT
LegacyGetPointForT(this, t) ==
    IF FEq(t, Zero) \/ FEq(t, One) THEN PointReturned(t, t)
    ELSE IF ~FGt(t, Zero) \/ ~FLt(t, One) THEN PointThrown
    ELSE PointReturned(LegacyPolynomial(t, this.a.x, this.b.x, this.c.x),
                       LegacyPolynomial(t, this.a.y, this.b.y, this.c.y))

\* css-beziers.js line 328: pointForT, the same code under its older name
PointForT(this, t) ==
    IF FEq(t, Zero) \/ FEq(t, One) THEN PointReturned(t, t)
    ELSE IF ~FGt(t, Zero) \/ ~FLt(t, One) THEN PointThrown
    ELSE PointReturned(LegacyPolynomial(t, this.a.x, this.b.x, this.c.x),
                       LegacyPolynomial(t, this.a.y, this.b.y, this.c.y))

(* ------------------------------------------------------------------ *)
(* State                                                              *)
(* ------------------------------------------------------------------ *)

VARIABLES
    heap,   \* the live objects; heap[1] is the curve the methods are called on
    ret,    \* the last call: what it was given, and what it threw or returned
    inv     \* the activation of _getTForCoordinate, while one is running

vars == <<heap, ret, inv>>

NoPoint == [x |-> Zero, y |-> Zero]

\* A call of op with args that ended (or stands) in status.  from holds
\* the arguments of the call whose result this call was given, if any.
Ret(op, args, status) ==
    [op |-> op, args |-> args, status |-> status, param |-> "",
     pt |-> NoPoint, arr |-> <<>>, num |-> Zero, exit |-> "", from |-> <<>>]

Status(thrown) == IF thrown THEN "RangeError" ELSE "ok"

Idle == [pc |-> "idle", axis |-> "x", c |-> Zero, epsilon |-> Zero,
         t2 |-> Zero, t0 |-> Zero, t1 |-> Zero, i |-> 0]

Init ==
    /\ heap = <<>>
    /\ ret = Ret("none", <<>>, "none")
    /\ inv = Idle

This == heap[1]

\* No call was made yet: the program is about to make its first object.
AtStart == heap = <<>> /\ ret.op = "none"

\* An object was made and no method was called on it yet.  The methods
\* read their receiver and their arguments only and assign to no field,
\* so a second call on the object would start from the state the first
\* one started from.
Made == heap # <<>> /\ ret.arr = <<1>>
HasCurve == Made /\ heap[1].variant = "css"
HasLegacy == Made /\ heap[1].variant = "legacy"

(* ------------------------------------------------------------------ *)
(* Calls                                                              *)
(* ------------------------------------------------------------------ *)

\* The state after a constructor call r, made first in the program.
AfterNew(op, args, r) ==
    /\ heap' = IF r.thrown THEN heap ELSE <<r.obj>>
    /\ ret' = [Ret(op, args, Status(r.thrown))
               EXCEPT !.param = r.param, !.arr = IF r.thrown THEN <<>> ELSE <<1>>]
    /\ UNCHANGED inv

\* The state after a point evaluation r on heap[1]; the objects that
\* earlier calls returned are dropped.
AfterPoint(op, args, r) ==
    /\ heap' = <<This>>
    /\ ret' = [Ret(op, args, Status(r.thrown)) EXCEPT !.pt = r.pt]
    /\ UNCHANGED inv

\* The state after a subdivision r of heap[1]: the objects it allocated
\* follow heap[1], and ret.arr holds their places in the heap.
AfterDivide(op, args, r) ==
    /\ heap' = <<This>> \o r.new
    /\ ret' = [Ret(op, args, Status(r.thrown))
               EXCEPT !.arr = [n \in DOMAIN r.arr |-> 1 + r.arr[n]], !.exit = r.exit]
    /\ UNCHANGED inv

\* new CubicBezier(p1x, p1y, p2x, p2y)
Construct(p1x, p1y, p2x, p2y) ==
    /\ AtStart
    /\ AfterNew("new", <<p1x, p1y, p2x, p2y>>, CubicBezier(p1x, p1y, p2x, p2y))

\* new CubicBezier(p1x, p1y, p2x, p2y) of the legacy variant
LegacyConstruct(p1x, p1y, p2x, p2y) ==
    /\ AtStart
    /\ AfterNew("legacy new", <<p1x, p1y, p2x, p2y>>,
                LegacyCubicBezier(p1x, p1y, p2x, p2y))

\* CubicBezier.linear(), .ease(), .easeIn(), .easeOut(), .easeInOut()
CallPreset(name) ==
    /\ AtStart
    /\ AfterNew(name, <<>>, Presets[name])

\* this.clone()
CallClone ==
    /\ HasCurve
    /\ heap' = <<This, Clone(This).obj>>
    /\ ret' = [Ret("clone", <<>>, "ok") EXCEPT !.arr = <<2>>]
    /\ UNCHANGED inv

\* this.getPointForT(t)
CallGetPointForT(t) ==
    /\ HasCurve
    /\ AfterPoint("getPointForT", <<t>>, GetPointForT(This, t))

\* this.divideAtT(t)
CallDivideAtT(t) ==
    /\ HasCurve
    /\ AfterDivide("divideAtT", <<t>>, DivideAtT(This, t))

\* this.getPointForT(t) of the legacy variant
CallLegacyGetPointForT(t) ==
    /\ HasLegacy
    /\ AfterPoint("legacy getPointForT", <<t>>, LegacyGetPointForT(This, t))

\* this.pointForT(t) of the legacy variant
CallPointForT(t) ==
    /\ HasLegacy
    /\ AfterPoint("legacy pointForT", <<t>>, PointForT(This, t))

(* ------------------------------------------------------------------ *)
(* Inversion: _getTForCoordinate, one action per step of its loops    *)
(* ------------------------------------------------------------------ *)

\* if (Math.abs(d2) < 1e-6)
DerivativeGuard == Lit(1, 1000000)

\* getTforX passing this._p1y, and getTforY this._p1x.
AxisP1Swapped(this, axis) == IF axis = "x" THEN this.p1y ELSE this.p1x

\* The control coordinates getTforX and getTforY pass on.
AxisP1(this, axis) == IF axis = "x" THEN this.p1x ELSE this.p1y
AxisP2(this, axis) == IF axis = "x" THEN this.p2x ELSE this.p2y

\* return from _getTForCoordinate
Return(v, exit) ==
    /\ ret' = [ret EXCEPT !.status = "ok", !.num = v, !.exit = exit]
    /\ inv' = Idle
    /\ UNCHANGED heap

\* Entry: the check of epsilon, and the initialisation of the Newton loop.
Enter(op, axis, c, epsilon, from) ==
    /\ heap' = <<This>>
    /\ IF ~IsFinite(epsilon) \/ FLe(epsilon, Zero)
       THEN /\ ret' = [Ret(op, <<c, epsilon>>, "RangeError") EXCEPT !.from = from]
            /\ UNCHANGED inv
       ELSE /\ ret' = [Ret(op, <<c, epsilon>>, "running") EXCEPT !.from = from]
            /\ inv' = [Idle EXCEPT !.pc = "newton", !.axis = axis, !.c = c,
                                   !.epsilon = epsilon, !.t2 = c, !.i = 0]

\* this._getTForCoordinate(c, p1, p2, epsilon), on a fresh object
GetTForCoordinate(op, axis, c, epsilon) ==
    /\ HasCurve
    /\ Enter(op, axis, c, epsilon, <<>>)

\* this.getTforX(x, epsilon)
GetTforX(x, epsilon) == GetTForCoordinate("getTforX", "x", x, epsilon)

\* this.getTforY(y, epsilon)
GetTforY(y, epsilon) == GetTForCoordinate("getTforY", "y", y, epsilon)

\* this.getTforX(this.getPointForT(t).x, epsilon): the second call of
\* the round trip, after the first has returned its point.
GetTforXOfPoint(epsilon) ==
    /\ heap # <<>>
    /\ ret.op = "getPointForT" /\ ret.status = "ok"
    /\ Enter("getTforX", "x", ret.pt.x, epsilon, ret.args)

\* The tolerance test without Math.abs: c2 < epsilon.
ConvergedSigned(c2, epsilon) == FLt(c2, epsilon)

\* if (Math.abs(c2) < epsilon) return t2
Converged(c2, epsilon) == FLt(MathAbs(c2), epsilon)

\* One iteration of the Newton loop, with c2 and d2 computed.
NewtonBody(c2, d2) ==
    IF Converged(c2, inv.epsilon)
    THEN Return(inv.t2, "newton")
    ELSE /\ inv' = IF FLt(MathAbs(d2), DerivativeGuard)
                   THEN [inv EXCEPT !.pc = "fallback"]
                   ELSE [inv EXCEPT !.t2 = FSub(inv.t2, FDiv(c2, d2)), !.i = inv.i + 1]
         /\ UNCHANGED <<heap, ret>>

NewtonIteration ==
    /\ inv.pc = "newton"
    /\ inv.i < NewtonIterations
    /\ NewtonBody(FSub(GetCoordinateForT(inv.t2, AxisP1(This, inv.axis),
                                         AxisP2(This, inv.axis)), inv.c),
                  GetCoordinateDerivateForT(inv.t2, AxisP1(This, inv.axis),
                                            AxisP2(This, inv.axis)))

\* The Newton loop ends after its last iteration.
NewtonExhausted ==
    /\ inv.pc = "newton"
    /\ ~(inv.i < NewtonIterations)
    /\ inv' = [inv EXCEPT !.pc = "fallback"]
    /\ UNCHANGED <<heap, ret>>

\* t2 = c; t0 = 0; t1 = 1; and the two returns before the loop.
FallbackFrom(t2, t0, t1) ==
    IF FLt(t2, t0) THEN Return(t0, "below")
    ELSE IF FGt(t2, t1) THEN Return(t1, "above")
    ELSE /\ inv' = [inv EXCEPT !.pc = "while", !.t2 = t2, !.t0 = t0, !.t1 = t1]
         /\ UNCHANGED <<heap, ret>>

Fallback ==
    /\ inv.pc = "fallback"
    /\ FallbackFrom(inv.c, Zero, One)

\* while (t0 < t1), and the return after the loop.
WhileTest ==
    /\ inv.pc = "while"
    /\ IF FLt(inv.t0, inv.t1)
       THEN /\ inv' = [inv EXCEPT !.pc = "body"]
            /\ UNCHANGED <<heap, ret>>
       ELSE Return(inv.t2, "failure")

\* t2 = (t1 - t0) * 0.5 + t0
Midpoint(t0, t1) == FAdd(FMul(FSub(t1, t0), Half), t0)

\* if (c > c2) t0 = t2; else t1 = t2; and the next estimate.
Narrow(t0, t1) ==
    /\ inv' = [inv EXCEPT !.pc = "while", !.t0 = t0, !.t1 = t1, !.t2 = Midpoint(t0, t1)]
    /\ UNCHANGED <<heap, ret>>

\* The body of the bisection loop, with c2 computed.
BisectionStep(c2) ==
    IF Converged(FSub(c2, inv.c), inv.epsilon)
    THEN Return(inv.t2, "bisection")
    ELSE IF FGt(inv.c, c2) THEN Narrow(inv.t2, inv.t1) ELSE Narrow(inv.t0, inv.t2)

BisectionBody ==
    /\ inv.pc = "body"
    /\ BisectionStep(GetCoordinateForT(inv.t2, AxisP1(This, inv.axis),
                                       AxisP2(This, inv.axis)))

Step == NewtonIteration \/ NewtonExhausted \/ Fallback \/ WhileTest \/ BisectionBody

(* ------------------------------------------------------------------ *)
(* Specifications                                                     *)
(* ------------------------------------------------------------------ *)

Next ==
    \/ \E p1x, p1y, p2x, p2y \in CoordInputs : Construct(p1x, p1y, p2x, p2y)
    \/ \E p1x, p1y, p2x, p2y \in CoordInputs : LegacyConstruct(p1x, p1y, p2x, p2y)
    \/ \E name \in DOMAIN Presets : CallPreset(name)
    \/ CallClone
    \/ \E t \in TInputs : CallGetPointForT(t)
    \/ \E t \in TInputs : CallDivideAtT(t)
    \/ \E t \in TInputs : CallLegacyGetPointForT(t)
    \/ \E t \in TInputs : CallPointForT(t)
    \/ \E x \in TargetInputs, epsilon \in EpsilonInputs : GetTforX(x, epsilon)
    \/ \E y \in TargetInputs, epsilon \in EpsilonInputs : GetTforY(y, epsilon)
    \/ \E epsilon \in EpsilonInputs : GetTforXOfPoint(epsilon)
    \/ NewtonIteration
    \/ NewtonExhausted
    \/ Fallback
    \/ WhileTest
    \/ BisectionBody

Spec == Init /\ [][Next]_vars

\* A call that has started runs on: the program is single-threaded and
\* nothing preempts the loops of _getTForCoordinate.
FairSpec == Spec /\ WF_vars(Step)

(* ------------------------------------------------------------------ *)
(* Properties                                                         *)
(* ------------------------------------------------------------------ *)

\* 0 <= v <= 1, read off the representation of v.
InUnit(v) == IsNum(v) /\ v.m >= 0 /\ (v.m = 0 \/ Top(v) <= 0 \/ v = Num(1, 0))

\* v < 0, v > 1, read off the representation of v.
Negative(v) == v.k # "nan" /\ v.m < 0
AboveOne(v) == v.k # "nan" /\ v.m > 0 /\ ~InUnit(v)

\* The four control coordinates of an object of either variant.
ControlPoints(obj) ==
    IF obj.variant = "css" THEN <<obj.p1x, obj.p1y, obj.p2x, obj.p2y>>
    ELSE <<obj.p1.x, obj.p1.y, obj.p2.x, obj.p2.y>>

ValidCurve(obj) == \A n \in 1..4 : InUnit(ControlPoints(obj)[n])

\* C1: a constructor call (of either variant) succeeds exactly when each
\* of its four arguments lies in [0,1]; otherwise it ends in a RangeError
\* and no object is made; every object there is has its four control
\* coordinates in [0,1].
C1_ConstructorRange ==
    /\ ret.op \in {"new", "legacy new"} =>
          /\ ret.status = "ok" <=> \A n \in 1..4 : InUnit(ret.args[n])
          /\ ret.status = "ok" => heap # <<>> /\ ControlPoints(heap[1]) = ret.args
          /\ ret.status # "ok" => ret.status = "RangeError" /\ heap = <<>>
    /\ \A n \in DOMAIN heap : ValidCurve(heap[n])

\* C1: a construction was refused for its first argument alone, which is
\* below 0, the other three being in range.
C1_Witness ==
    /\ ret.op = "new" /\ ret.status = "RangeError" /\ ret.param = "p1x"
    /\ Negative(ret.args[1])
    /\ \A n \in 2..4 : InUnit(ret.args[n])
    /\ heap = <<>>

\* C10: divideAtT(0) returns [linear, copy] and divideAtT(1) returns
\* [copy, linear], where linear is the curve (0,0,1,1) and copy has the
\* receiver's four control points and is another object than the
\* receiver; the call leaves by the boundary case, not by the division.
C10_BoundaryDivision ==
    (ret.op = "divideAtT" /\ ret.args[1] \in {Zero, One}) =>
        /\ ret.status = "ok"
        /\ ret.exit = "boundary"
        /\ Len(ret.arr) = 2
        /\ \A n \in 1..2 : ret.arr[n] \in DOMAIN heap
        /\ ret.arr[IF ret.args[1] = Zero THEN 2 ELSE 1] # 1
        /\ ControlPoints(heap[ret.arr[IF ret.args[1] = Zero THEN 2 ELSE 1]])
              = ControlPoints(heap[1])
        /\ ControlPoints(heap[ret.arr[IF ret.args[1] = Zero THEN 1 ELSE 2]])
              = <<Zero, Zero, One, One>>

\* C10: divideAtT(1) has returned, on a curve that is not the linear one.
C10_Witness ==
    /\ ret.op = "divideAtT" /\ ret.args[1] = One /\ ret.status = "ok"
    /\ ControlPoints(heap[1]) # <<Zero, Zero, One, One>>
    /\ Len(heap) = 3

\* 0 < t < 1, read off the representation of t.
Inside(t) == IsNum(t) /\ t.m > 0 /\ Top(t) <= 0

\* ((a*t + b)*t + c)*t where c = 3*p1, b = 3*(p2 - p1) - c, a = 1 - c - b
ClosedForm(t, p1, p2) ==
    LET c == FMul(Three, p1)
        b == FSub(FMul(Three, FSub(p2, p1)), c)
        a == FSub(FSub(One, c), b)
    IN  FMul(FAdd(FMul(FAdd(FMul(a, t), b), t), c), t)

\* C2: for 0 < t < 1, each of getPointForT, the legacy getPointForT and
\* the legacy pointForT returns on each axis the closed-form coordinate
\* ((a*t + b)*t + c)*t of the receiver's control points.
C2_PointEvaluation ==
    (/\ ret.op \in {"getPointForT", "legacy getPointForT", "legacy pointForT"}
     /\ Inside(ret.args[1])) =>
        /\ ret.status = "ok"
        /\ ret.pt.x = ClosedForm(ret.args[1], ControlPoints(heap[1])[1],
                                 ControlPoints(heap[1])[3])
        /\ ret.pt.y = ClosedForm(ret.args[1], ControlPoints(heap[1])[2],
                                 ControlPoints(heap[1])[4])

\* C5: the parameter inversion returns lies in [0,1]; it is 0 for a
\* target below 0 and 1 for a target above 1.
C5_InversionRange ==
    (ret.op \in {"getTforX", "getTforY"} /\ ret.status = "ok") =>
        /\ InUnit(ret.num)
        /\ Negative(ret.args[1]) => ret.num = Zero
        /\ AboveOne(ret.args[1]) => ret.num = One

\* C7: for a number t, divideAtT(t) returns two curves with control
\* points in [0,1] when 0 <= t <= 1, and ends in a RangeError only when
\* t < 0 or t > 1; the receiver keeps its control points.
C7_DivideAtT ==
    (ret.op = "divideAtT" /\ IsNum(ret.args[1])) =>
        /\ InUnit(ret.args[1]) =>
              /\ ret.status = "ok"
              /\ Len(ret.arr) = 2
              /\ \A n \in 1..2 : ret.arr[n] \in DOMAIN heap /\ ValidCurve(heap[ret.arr[n]])
        /\ ret.status = "RangeError" => Negative(ret.args[1]) \/ AboveOne(ret.args[1])
        /\ ValidCurve(heap[1])

\* C9: a call of _getTForCoordinate that has passed the check of epsilon
\* eventually returns, whatever the curve, the axis and the target.
C9_Termination == (ret.status = "running") ~> (ret.status = "ok")

\* The receiver is the linear curve and getPointForT(t) was called with
\* t in [0,1].
LinearEvaluated ==
    /\ ret.op = "getPointForT"
    /\ ControlPoints(heap[1]) = <<Zero, Zero, One, One>>
    /\ InUnit(ret.args[1])

\* C3 as stated: on the linear curve getPointForT(t) returns (t, t) for
\* every t in [0,1].
C3_LinearIdentity ==
    LinearEvaluated =>
        ret.status = "ok" /\ ret.pt = [x |-> ret.args[1], y |-> ret.args[1]]

\* |v - (3*t^2 - 2*t^3)| <= 2^(2-P), in exact arithmetic: with t = m * 2^e
\* both sides are integers over 2^(-3e).
NearThreeTSquaredMinusTwoTCubed(v, t) ==
    Abs(v.m * Pow2(v.e - 3 * t.e)
        - (3 * t.m * t.m * Pow2(-t.e) - 2 * t.m * t.m * t.m)) * Pow2(P - 2)
      <= Pow2(-3 * t.e)

\* C3: on the linear curve getPointForT(t) returns, for every t in
\* [0,1], a point with x = y: (t, t) at t = 0 and t = 1, and for
\* 0 < t < 1 the value of 3*t^2 - 2*t^3 up to rounding on both axes.
C3_LinearDiagonal ==
    LinearEvaluated =>
        /\ ret.status = "ok"
        /\ ret.pt.x = ret.pt.y
        /\ ~Inside(ret.args[1]) => ret.pt.x = ret.args[1]
        /\ Inside(ret.args[1]) =>
              NearThreeTSquaredMinusTwoTCubed(ret.pt.x, ret.args[1])

\* C3: getPointForT(t) has returned on the linear curve with 0 < t < 1
\* and a coordinate other than t.
C3_Witness ==
    /\ LinearEvaluated /\ Inside(ret.args[1]) /\ ret.status = "ok"
    /\ ret.pt.x # ret.args[1]

\* An inversion has returned a parameter for a target in [0,1].
Inverted ==
    /\ ret.op \in {"getTforX", "getTforY"}
    /\ ret.status = "ok"
    /\ InUnit(ret.args[1])

\* The coordinate of the receiver at t on the axis the last call named.
CoordinateAt(t) ==
    IF ret.op = "getTforX"
    THEN ClosedForm(t, ControlPoints(heap[1])[1], ControlPoints(heap[1])[3])
    ELSE ClosedForm(t, ControlPoints(heap[1])[2], ControlPoints(heap[1])[4])

\* |coordinate at the returned parameter - c| < epsilon
WithinEpsilon(c) == FLt(MathAbs(FSub(CoordinateAt(ret.num), c)), ret.args[2])

\* C4 as stated: whenever inversion returns for a target c in [0,1],
\* the coordinate at the returned parameter is within epsilon of c.
C4_WithinEpsilon == Inverted => WithinEpsilon(ret.args[1])

\* C4: whenever inversion returns for a target c in [0,1] from one of
\* its two tolerance tests (in the Newton loop or in the bisection
\* loop), the coordinate at the returned parameter is within epsilon of
\* c; the return after the bisection loop promises nothing.
C4_WithinEpsilonWhenTested ==
    (Inverted /\ ret.exit \in {"newton", "bisection"}) => WithinEpsilon(ret.args[1])

\* C4: an inversion has returned from the tolerance test of the
\* bisection loop, after the Newton loop gave up.
C4_Witness == Inverted /\ ret.exit = "bisection"

\* getTforX(getPointForT(t).x, epsilon) has returned.
RoundTripDone ==
    /\ ret.op = "getTforX" /\ ret.from # <<>>
    /\ ret.status = "ok"

\* C6 as stated: the parameter the round trip returns is within epsilon
\* of t.
C6_RoundTripParameter ==
    RoundTripDone => FLe(MathAbs(FSub(ret.num, ret.from[1])), ret.args[2])

\* C6: the round trip is given the x coordinate of the point at t, and
\* when it returns from one of the tolerance tests, the x coordinate at
\* the parameter it returns is within epsilon of that coordinate.
C6_RoundTripCoordinate ==
    RoundTripDone =>
        /\ InUnit(ret.from[1])
        /\ ret.args[1] = IF Inside(ret.from[1])
                          THEN ClosedForm(ret.from[1], ControlPoints(heap[1])[1],
                                          ControlPoints(heap[1])[3])
                          ELSE ret.from[1]
        /\ ret.exit \in {"newton", "bisection"} => WithinEpsilon(ret.args[1])

\* C6: a round trip has returned a parameter that is further than
\* epsilon from t.
C6_Witness ==
    /\ RoundTripDone /\ ret.exit = "newton"
    /\ FGt(MathAbs(FSub(ret.num, ret.from[1])), ret.args[2])

\* divideAtT(t) with 0 < t < 1 has returned [L, R].
Divided ==
    /\ ret.op = "divideAtT" /\ ret.status = "ok"
    /\ Inside(ret.args[1])

\* The coordinate of the curve obj at s on an axis, as getPointForT
\* returns it.
CurveAt(obj, axis, s) ==
    IF s = Zero \/ s = One THEN s
    ELSE IF axis = "x" THEN ClosedForm(s, obj.p1x, obj.p2x)
    ELSE ClosedForm(s, obj.p1y, obj.p2y)

\* The local parameters the two halves are sampled at.
Samples == {Lit(k, TDen) : k \in 0..TDen}

\* |k * L(s) - C(t*s)| and |k + (1 - k) * R(s) - C(t + (1 - t)*s)|
LeftDeviation(C, L, axis, t, s) ==
    MathAbs(FSub(FMul(CurveAt(C, axis, t), CurveAt(L, axis, s)),
                 CurveAt(C, axis, FMul(t, s))))

RightDeviation(C, R, axis, t, s) ==
    MathAbs(FSub(FAdd(CurveAt(C, axis, t),
                      FMul(FSub(One, CurveAt(C, axis, t)), CurveAt(R, axis, s))),
                 CurveAt(C, axis, FAdd(t, FMul(FSub(One, t), s)))))

\* Both halves trace the curve to within tol, at every sample.
ShapeKept(tol) ==
    \A axis \in {"x", "y"}, s \in Samples :
        /\ FLe(LeftDeviation(heap[1], heap[ret.arr[1]], axis, ret.args[1], s), tol)
        /\ FLe(RightDeviation(heap[1], heap[ret.arr[2]], axis, ret.args[1], s), tol)

\* C8 as stated: k * L(s) = C(t*s) and k + (1 - k) * R(s) = C(t + (1 - t)*s)
\* on each axis, for every s in [0,1].
C8_ShapeExact == Divided => ShapeKept(Zero)

\* C8: the two identities hold up to the rounding of the arithmetic:
\* both sides differ by at most 16 units of the last place of 1, 2^(4-P).
C8_ShapeRounded == Divided => ShapeKept(Num(1, 4 - P))

\* C8: a curve was divided at 0 < t < 1 into two curves neither of which
\* has the control points of the curve divided.
C8_Witness ==
    /\ Divided
    /\ ControlPoints(heap[ret.arr[1]]) # ControlPoints(heap[1])
    /\ ControlPoints(heap[ret.arr[2]]) # ControlPoints(heap[1])
====
